---------------------------- MODULE Spec2Model ----------------------------
(***************************************************************************)
(* A model of the DNS server of src/unnamed/part_001 (lines 1-552): the    *)
(* wire-format codec (Header.Encode, encodeName, Query.Encode,             *)
(* ParseMessage and the parser methods) as operators over byte sequences,  *)
(* the name decoder as a step machine, and main (flag, bind, receive loop, *)
(* forwarder, stub responder) as a state machine.                          *)
(*                                                                         *)
(* Bytes are integers 0..255, a buffer is a sequence of bytes.  Go offsets *)
(* are 0-based: the byte at offset off of data is data[off + 1].  A Go     *)
(* string (a name, a label) is the sequence of its bytes; the empty string *)
(* is << >>.                                                               *)
(***************************************************************************)
EXTENDS Integers, Sequences, FiniteSets, TLC

(***************************************************************************)
(* Integer widths and byte order (encoding/binary.BigEndian).              *)
(***************************************************************************)
U16(v) == << (v \div 256) % 256, v % 256 >>

U32(v) == << (v \div 16777216) % 256, (v \div 65536) % 256,
             (v \div 256) % 256, v % 256 >>

GetU16(data, off) == data[off + 1] * 256 + data[off + 2]

GetU32(data, off) ==
    data[off + 1] * 16777216 + data[off + 2] * 65536
        + data[off + 3] * 256 + data[off + 4]

Bit(b) == IF b THEN 1 ELSE 0

Zeros(n) == [i \in 1..n |-> 0]

\* Op applied to the value of v.  (It only fixes the order of evaluation:
\* v is evaluated once, before Op is applied.)
Eval(v, Op(_)) == CHOOSE r \in {Op(x) : x \in {v}} : TRUE

(***************************************************************************)
(* strings.Split(name, ".") and strings.Join(labels, ".").                 *)
(***************************************************************************)
Dot == 46

RECURSIVE Split(_)
Split(s) ==
    IF \A i \in 1..Len(s) : s[i] # Dot
    THEN << s >>
    ELSE LET i == CHOOSE k \in 1..Len(s) :
                      s[k] = Dot /\ \A j \in 1..(k - 1) : s[j] # Dot
         IN  << SubSeq(s, 1, i - 1) >> \o Split(SubSeq(s, i + 1, Len(s)))

RECURSIVE Join(_)
Join(labels) ==
    IF labels = << >> THEN << >>
    ELSE IF Len(labels) = 1 THEN labels[1]
    ELSE labels[1] \o << Dot >> \o Join(Tail(labels))

(***************************************************************************)
(* Header.Encode: the 16-bit flags word and the 12-byte header.            *)
(***************************************************************************)
HeaderFlags(h) ==
    Bit(h.QR) * 32768 + (h.Opcode % 16) * 2048 + Bit(h.AA) * 1024
        + Bit(h.TC) * 512 + Bit(h.RD) * 256 + Bit(h.RA) * 128
        + (h.Z % 8) * 16 + (h.RCode % 16)

HeaderEncode(h) ==
    U16(h.ID) \o U16(HeaderFlags(h)) \o U16(h.QDCount) \o U16(h.ANCount)
        \o U16(h.NSCount) \o U16(h.ARCount)

(***************************************************************************)
(* encodeName.  offsetMap is a function from name suffixes to offsets.     *)
(* pointer := 0xC000 | pos, then uint16(pointer): the low 14 bits of pos   *)
(* with the two top bits set.                                              *)
(***************************************************************************)
EmptyMap == [x \in {} |-> 0]

PointerWord(pos) == 49152 + (pos % 16384)

RECURSIVE encodeLabels(_, _, _, _)
encodeLabels(labels, i, buf, offsetMap) ==
    IF i > Len(labels)
    THEN [buf |-> Append(buf, 0), offsetMap |-> offsetMap]
    ELSE Eval(Join(SubSeq(labels, i, Len(labels))), LAMBDA suffix :
           IF suffix \in DOMAIN offsetMap
           THEN [buf |-> buf \o U16(PointerWord(offsetMap[suffix])),
                 offsetMap |-> offsetMap]
           ELSE Eval([buf |-> buf \o << Len(labels[i]) % 256 >> \o labels[i],
                      offsetMap |-> offsetMap @@ (suffix :> Len(buf))],
                     LAMBDA w : encodeLabels(labels, i + 1, w.buf, w.offsetMap)))

encodeName(name, buf, offsetMap) ==
    IF name = << >>
    THEN [buf |-> Append(buf, 0), offsetMap |-> offsetMap]
    ELSE Eval(Split(name),
              LAMBDA labels : encodeLabels(labels, 1, buf, offsetMap))

(***************************************************************************)
(* Question.Encode, ResourceRecord.Encode, Query.Encode.                   *)
(***************************************************************************)
QuestionEncode(q, buf, offsetMap) ==
    Eval(encodeName(q.Name, buf, offsetMap), LAMBDA n :
        [buf |-> n.buf \o U16(q.QType) \o U16(q.QClass),
         offsetMap |-> n.offsetMap])

ResourceRecordEncode(rr, buf, offsetMap) ==
    Eval(encodeName(rr.Name, buf, offsetMap), LAMBDA n :
        [buf |-> n.buf \o U16(rr.Type) \o U16(rr.Class) \o U32(rr.TTL)
                     \o U16(Len(rr.RData) % 65536) \o rr.RData,
         offsetMap |-> n.offsetMap])

\* The two loops of Query.Encode, over qs[lo..hi] and rrs[lo..hi].  (A loop
\* is evaluated as its first half followed by its second half, which keeps
\* the evaluation shallow; the items are encoded in index order.)
RECURSIVE EncodeQuestions(_, _, _, _, _)
EncodeQuestions(qs, lo, hi, buf, offsetMap) ==
    IF lo > hi THEN [buf |-> buf, offsetMap |-> offsetMap]
    ELSE IF lo = hi THEN QuestionEncode(qs[lo], buf, offsetMap)
    ELSE Eval(EncodeQuestions(qs, lo, (lo + hi) \div 2, buf, offsetMap),
              LAMBDA e : EncodeQuestions(qs, (lo + hi) \div 2 + 1, hi,
                                         e.buf, e.offsetMap))

RECURSIVE EncodeAnswers(_, _, _, _, _)
EncodeAnswers(rrs, lo, hi, buf, offsetMap) ==
    IF lo > hi THEN [buf |-> buf, offsetMap |-> offsetMap]
    ELSE IF lo = hi THEN ResourceRecordEncode(rrs[lo], buf, offsetMap)
    ELSE Eval(EncodeAnswers(rrs, lo, (lo + hi) \div 2, buf, offsetMap),
              LAMBDA e : EncodeAnswers(rrs, (lo + hi) \div 2 + 1, hi,
                                       e.buf, e.offsetMap))

QueryEncode(q) ==
    Eval(EncodeQuestions(q.Questions, 1, Len(q.Questions),
                         HeaderEncode(q.Header), EmptyMap),
         LAMBDA qs : EncodeAnswers(q.Answers, 1, Len(q.Answers),
                                   qs.buf, qs.offsetMap).buf)

(***************************************************************************)
(* parseHeader.                                                            *)
(***************************************************************************)
NoHeader ==
    [ID |-> 0, QR |-> FALSE, Opcode |-> 0, AA |-> FALSE, TC |-> FALSE,
     RD |-> FALSE, RA |-> FALSE, Z |-> 0, RCode |-> 0, QDCount |-> 0,
     ANCount |-> 0, NSCount |-> 0, ARCount |-> 0]

parseHeader(data) ==
    IF Len(data) < 12
    THEN [err |-> "too short for DNS header", h |-> NoHeader]
    ELSE LET flags == GetU16(data, 2)
         IN  [err |-> "",
              h |-> [ID |-> GetU16(data, 0),
                     QR |-> (flags \div 32768) % 2 = 1,
                     Opcode |-> (flags \div 2048) % 16,
                     AA |-> (flags \div 1024) % 2 = 1,
                     TC |-> (flags \div 512) % 2 = 1,
                     RD |-> (flags \div 256) % 2 = 1,
                     RA |-> (flags \div 128) % 2 = 1,
                     Z |-> (flags \div 16) % 8,
                     RCode |-> flags % 16,
                     QDCount |-> GetU16(data, 4),
                     ANCount |-> GetU16(data, 6),
                     NSCount |-> GetU16(data, 8),
                     ARCount |-> GetU16(data, 10)]]

(***************************************************************************)
(* parser.readUint16 / parser.readUint32.  binary.BigEndian.Uint16(b)      *)
(* indexes b[1] and Uint32(b) indexes b[3] without a length check of the   *)
(* caller: on a slice that is too short the Go runtime panics (index out   *)
(* of range).  p.off never exceeds len(p.data) when they are called, so    *)
(* the slice expression p.data[p.off:] itself is in range.                 *)
(***************************************************************************)
readUint16(data, off) ==
    IF off + 2 > Len(data)
    THEN [panic |-> TRUE, v |-> 0, off |-> off]
    ELSE [panic |-> FALSE, v |-> GetU16(data, off), off |-> off + 2]

readUint32(data, off) ==
    IF off + 4 > Len(data)
    THEN [panic |-> TRUE, v |-> 0, off |-> off]
    ELSE [panic |-> FALSE, v |-> GetU32(data, off), off |-> off + 4]

(***************************************************************************)
(* parser.readNameWithJumps.  NameIter is one iteration of its for loop at *)
(* offset off: an error return, the terminator, a literal label, or a      *)
(* compression pointer (checked for truncation and range).  MarkVisited is *)
(* the assignment visited[originalOff] = true made before the recursive    *)
(* call on the pointer's target.                                           *)
(***************************************************************************)
NameIter(data, off, visited) ==
    IF off >= Len(data)
    THEN [kind |-> "err", err |-> "name out of range", off |-> off,
          ptr |-> 0, label |-> << >>]
    ELSE IF off \in visited
    THEN [kind |-> "err", err |-> "compression loop", off |-> off,
          ptr |-> 0, label |-> << >>]
    ELSE LET length == data[off + 1]
         IN  IF length \div 64 = 3
             THEN IF off + 1 >= Len(data)
                  THEN [kind |-> "err", err |-> "truncated pointer",
                        off |-> off + 1, ptr |-> 0, label |-> << >>]
                  ELSE LET ptr == (length % 64) * 256 + data[off + 2]
                       IN  IF ptr >= Len(data)
                           THEN [kind |-> "err", err |-> "pointer out of range",
                                 off |-> off + 2, ptr |-> ptr, label |-> << >>]
                           ELSE [kind |-> "ptr", err |-> "", off |-> off + 2,
                                 ptr |-> ptr, label |-> << >>]
             ELSE IF length > 63
             THEN [kind |-> "err", err |-> "label too long", off |-> off + 1,
                   ptr |-> 0, label |-> << >>]
             ELSE IF length = 0
             THEN [kind |-> "end", err |-> "", off |-> off + 1, ptr |-> 0,
                   label |-> << >>]
             ELSE IF off + 1 + length > Len(data)
             THEN [kind |-> "err", err |-> "truncate label", off |-> off + 1,
                   ptr |-> 0, label |-> << >>]
             ELSE [kind |-> "label", err |-> "", off |-> off + 1 + length,
                   ptr |-> 0,
                   label |-> SubSeq(data, off + 2, off + 1 + length)]

\* MarkVisited with a fault: the pointer's target is marked instead of the
\* offset at which this call started.
MarkVisited_M(visited, originalOff, ptr) == visited \cup {ptr}

MarkVisited(visited, originalOff, ptr) == visited \cup {originalOff}

\* The labels of a frame after the recursive call returned name.
AfterJump(labels, name) ==
    IF name # << >> THEN Append(labels, name) ELSE labels

RECURSIVE readNameWithJumps(_, _, _, _, _)
readNameWithJumps(data, off, originalOff, labels, visited) ==
    Eval(NameIter(data, off, visited), LAMBDA it :
        CASE it.kind = "err" ->
               [err |-> it.err, name |-> << >>, off |-> it.off]
          [] it.kind = "end" ->
               [err |-> "", name |-> Join(labels), off |-> it.off]
          [] it.kind = "label" ->
               Eval(Append(labels, it.label), LAMBDA ls :
                   readNameWithJumps(data, it.off, originalOff, ls, visited))
          [] it.kind = "ptr" ->
               Eval(readNameWithJumps(data, it.ptr, it.ptr, << >>,
                        MarkVisited(visited, originalOff, it.ptr)),
                    LAMBDA sub :
                       IF sub.err # ""
                       THEN [err |-> sub.err, name |-> << >>, off |-> it.off]
                       ELSE [err |-> "",
                             name |-> Join(AfterJump(labels, sub.name)),
                             off |-> it.off]))

readName(data, off) == readNameWithJumps(data, off, off, << >>, {})

(***************************************************************************)
(* parser.readQuestion and parser.readResourceRecord.  kind is "ok", "err" *)
(* (an error value is returned) or "panic" (the Go runtime panics).        *)
(***************************************************************************)
NoItem == [Name |-> << >>]

Failed(kind, err, off) ==
    [kind |-> kind, err |-> err, item |-> NoItem, off |-> off]

readQuestion(data, off) ==
    Eval(readName(data, off), LAMBDA n :
      IF n.err # "" THEN Failed("err", n.err, off)
      ELSE Eval(readUint16(data, n.off), LAMBDA t :
        IF t.panic THEN Failed("panic", "index out of range", off)
        ELSE Eval(readUint16(data, t.off), LAMBDA c :
          IF c.panic THEN Failed("panic", "index out of range", off)
          ELSE [kind |-> "ok", err |-> "",
                item |-> [Name |-> n.name, QType |-> t.v, QClass |-> c.v],
                off |-> c.off])))

readResourceRecord(data, off) ==
    Eval(readName(data, off), LAMBDA n :
      IF n.err # "" THEN Failed("err", n.err, off)
      ELSE Eval(readUint16(data, n.off), LAMBDA t :
        IF t.panic THEN Failed("panic", "index out of range", off)
        ELSE Eval(readUint16(data, t.off), LAMBDA c :
          IF c.panic THEN Failed("panic", "index out of range", off)
          ELSE Eval(readUint32(data, c.off), LAMBDA ttl :
            IF ttl.panic THEN Failed("panic", "index out of range", off)
            ELSE Eval(readUint16(data, ttl.off), LAMBDA rdlen :
              IF rdlen.panic THEN Failed("panic", "index out of range", off)
              ELSE IF rdlen.off + rdlen.v > Len(data)
              THEN Failed("err", "truncated rdata", off)
              ELSE [kind |-> "ok", err |-> "",
                    item |-> [Name |-> n.name, Type |-> t.v, Class |-> c.v,
                              TTL |-> ttl.v,
                              RData |-> SubSeq(data, rdlen.off + 1,
                                               rdlen.off + rdlen.v)],
                    off |-> rdlen.off + rdlen.v])))))

(***************************************************************************)
(* ParseMessage: the header, then QDCount questions, ANCount answers,      *)
(* NSCount authorities and ARCount additionals.                            *)
(***************************************************************************)
\* The loops of ParseMessage: n items read from offset off and appended to
\* acc, stopping at the first that fails.  (A loop of n iterations is
\* evaluated as its first n \div 2 iterations followed by the rest.)
RECURSIVE readQuestions(_, _, _, _)
readQuestions(data, off, n, acc) ==
    IF n = 0 THEN [kind |-> "ok", err |-> "", items |-> acc, off |-> off]
    ELSE IF n = 1
    THEN Eval(readQuestion(data, off), LAMBDA q :
           IF q.kind # "ok"
           THEN [kind |-> q.kind, err |-> q.err, items |-> << >>, off |-> off]
           ELSE [kind |-> "ok", err |-> "", items |-> Append(acc, q.item),
                 off |-> q.off])
    ELSE Eval(readQuestions(data, off, n \div 2, acc), LAMBDA r :
           IF r.kind # "ok" THEN r
           ELSE readQuestions(data, r.off, n - n \div 2, r.items))

RECURSIVE readRecords(_, _, _, _)
readRecords(data, off, n, acc) ==
    IF n = 0 THEN [kind |-> "ok", err |-> "", items |-> acc, off |-> off]
    ELSE IF n = 1
    THEN Eval(readResourceRecord(data, off), LAMBDA rr :
           IF rr.kind # "ok"
           THEN [kind |-> rr.kind, err |-> rr.err, items |-> << >>, off |-> off]
           ELSE [kind |-> "ok", err |-> "", items |-> Append(acc, rr.item),
                 off |-> rr.off])
    ELSE Eval(readRecords(data, off, n \div 2, acc), LAMBDA r :
           IF r.kind # "ok" THEN r
           ELSE readRecords(data, r.off, n - n \div 2, r.items))

NoMessage ==
    [Header |-> NoHeader, Questions |-> << >>, Answers |-> << >>,
     Authorities |-> << >>, Additionals |-> << >>]

Unparsed(kind, err) == [kind |-> kind, err |-> err, msg |-> NoMessage]

ParseMessage(data) ==
    Eval(parseHeader(data), LAMBDA ph :
      IF ph.err # "" THEN Unparsed("err", ph.err)
      ELSE Eval(readQuestions(data, 12, ph.h.QDCount, << >>), LAMBDA qd :
        IF qd.kind # "ok" THEN Unparsed(qd.kind, qd.err)
        ELSE Eval(readRecords(data, qd.off, ph.h.ANCount, << >>), LAMBDA an :
          IF an.kind # "ok" THEN Unparsed(an.kind, an.err)
          ELSE Eval(readRecords(data, an.off, ph.h.NSCount, << >>), LAMBDA ns :
            IF ns.kind # "ok" THEN Unparsed(ns.kind, ns.err)
            ELSE Eval(readRecords(data, ns.off, ph.h.ARCount, << >>), LAMBDA ar :
              IF ar.kind # "ok" THEN Unparsed(ar.kind, ar.err)
              ELSE [kind |-> "ok", err |-> "",
                    msg |-> [Header |-> ph.h, Questions |-> qd.items,
                             Answers |-> an.items, Authorities |-> ns.items,
                             Additionals |-> ar.items]])))))

(***************************************************************************)
(* answerQuestion.                                                         *)
(***************************************************************************)
answerQuestion(q) ==
    [Name |-> q.Name, Type |-> 1, Class |-> 1, TTL |-> 60,
     RData |-> << 8, 8, 8, 8 >>]

(***************************************************************************)
(* main: what it computes between its I/O calls.                           *)
(***************************************************************************)

\* net.ResolveUDPAddr("udp", *addr), lines 378-382.  For the empty address
\* (the flag's default) the standard library does no host/port split and
\* returns the wildcard address &UDPAddr{} with a nil error; an address that
\* does not split into host and port gives an error and a nil address.
ResolveUDPAddr(addr) ==
    IF addr = "" THEN [err |-> FALSE, addr |-> ":0"]
    ELSE IF addr = "8.8.8.8:53" THEN [err |-> FALSE, addr |-> addr]
    ELSE [err |-> TRUE, addr |-> "nil"]

\* ResponseCode with a fault: the response code is never set to 4.
ResponseCode_M(opcode) == 0

\* var responseCode uint8 = 0; if message.Header.Opcode != 0 { = 4 }
ResponseCode(opcode) == IF opcode # 0 THEN 4 ELSE 0

\* if resAddr != nil && responseCode == 0
UseForwarder(addr, responseCode) == addr # "nil" /\ responseCode = 0

\* The index of the question the forwarder loop sends as its k-th.
ForwardOrder(k) == k

SingleQuery(msg, question) ==
    [Header |-> [ID |-> msg.Header.ID, QR |-> FALSE,
                 Opcode |-> msg.Header.Opcode, AA |-> FALSE, TC |-> FALSE,
                 RD |-> msg.Header.RD, RA |-> FALSE, Z |-> 0, RCode |-> 0,
                 QDCount |-> 1, ANCount |-> 0, NSCount |-> 0, ARCount |-> 0],
     Questions |-> << question >>,
     Answers |-> << >>]

\* AppendAnswers with a fault: the new answers are put in front.
AppendAnswers_M(all, answers) == answers \o all

\* allAnswers = append(allAnswers, ressolverResponse.Answers...)
AppendAnswers(all, answers) == all \o answers

FinalResponse(msg, all) ==
    [Header |-> [ID |-> msg.Header.ID, QR |-> TRUE,
                 Opcode |-> msg.Header.Opcode, AA |-> FALSE, TC |-> FALSE,
                 RD |-> msg.Header.RD, RA |-> TRUE, Z |-> 0, RCode |-> 0,
                 QDCount |-> Len(msg.Questions) % 65536,
                 ANCount |-> Len(all) % 65536,
                 NSCount |-> 0, ARCount |-> 0],
     Questions |-> msg.Questions,
     Answers |-> all]

StubHeader(msg, responseCode) ==
    [ID |-> msg.Header.ID, QR |-> TRUE, Opcode |-> msg.Header.Opcode,
     AA |-> FALSE, TC |-> FALSE, RD |-> msg.Header.RD, RA |-> FALSE,
     Z |-> 0, RCode |-> responseCode,
     QDCount |-> Len(msg.Questions) % 65536,
     ANCount |-> Len(msg.Questions) % 65536,
     NSCount |-> 0, ARCount |-> 0]

StubResponse(msg, responseCode) ==
    [Header |-> StubHeader(msg, responseCode),
     Questions |-> msg.Questions,
     Answers |-> [i \in 1..Len(msg.Questions) |->
                      answerQuestion(msg.Questions[i])]]

\* buf := make([]byte, 512); ReadFromUDP(buf) keeps at most len(buf) bytes.
BufSize == 512

ReadInto(datagram) ==
    IF Len(datagram) > BufSize THEN SubSeq(datagram, 1, BufSize) ELSE datagram

(***************************************************************************)
(* The inputs of the model: command lines, client datagrams and upstream   *)
(* response datagrams.                                                     *)
(***************************************************************************)
MaxQuestions == 2

ResolverFlags == {"", "8.8.8.8:53", "8.8.8.8"}

Root == << >>
NameA == << 97 >>
NameAB == << 97, 46, 98 >>
NameCB == << 99, 46, 98 >>

Q(name) == [Name |-> name, QType |-> 1, QClass |-> 1]

RR(name, ttl, rdata) ==
    [Name |-> name, Type |-> 1, Class |-> 1, TTL |-> ttl, RData |-> rdata]

MsgHeader(id, qr, opcode, rd, ra, qd, an) ==
    [ID |-> id, QR |-> qr, Opcode |-> opcode, AA |-> FALSE, TC |-> FALSE,
     RD |-> rd, RA |-> ra, Z |-> 0, RCode |-> 0, QDCount |-> qd,
     ANCount |-> an, NSCount |-> 0, ARCount |-> 0]

SeqsUpTo(S, n) == UNION {[1..k -> S] : k \in 0..n}

ClientQuery(id, opcode, rd, qs) ==
    QueryEncode([Header |-> MsgHeader(id, FALSE, opcode, rd, FALSE, Len(qs), 0),
                 Questions |-> qs, Answers |-> << >>])

\* Well-formed queries: every list of at most MaxQuestions questions.
WellFormedQueries ==
    {ClientQuery(4660, op, rd, qs) :
        op \in {0, 2}, rd \in BOOLEAN,
        qs \in SeqsUpTo({Q(NameAB), Q(NameCB), Q(Root)}, MaxQuestions)}

\* Fewer than 12 bytes.
ShortDatagram == << 18, 52, 1, 0 >>

\* C0 0C at offset 12: a pointer to itself.
SelfPointerQuery ==
    HeaderEncode(MsgHeader(4660, FALSE, 0, TRUE, FALSE, 1, 0)) \o << 192, 12 >>

\* The buffer ends one byte into the QTYPE of its question.
CutQuestionQuery ==
    HeaderEncode(MsgHeader(4660, FALSE, 0, TRUE, FALSE, 1, 0))
        \o << 1, 97, 0, 0 >>

\* Two questions, "a" and "b.a", the second ending in a pointer to the first.
CompressedQuery ==
    HeaderEncode(MsgHeader(4660, FALSE, 0, TRUE, FALSE, 2, 0))
        \o << 1, 97, 0, 0, 1, 0, 1 >> \o << 1, 98, 192, 12, 0, 1, 0, 1 >>

\* One question whose single label is the byte '.'.
DotLabelQuery ==
    HeaderEncode(MsgHeader(4660, FALSE, 0, FALSE, FALSE, 1, 0))
        \o << 1, 46, 0, 0, 1, 0, 1 >>

\* 26 questions for the root name, Opcode 2: 142 bytes.
ManyQuestionsQuery ==
    ClientQuery(4660, 2, TRUE, [i \in 1..26 |-> Q(Root)])

ClientDatagrams ==
    WellFormedQueries \cup
        {ShortDatagram, SelfPointerQuery, CutQuestionQuery, CompressedQuery,
         DotLabelQuery, ManyQuestionsQuery}

UpstreamAnswer(answers) ==
    QueryEncode([Header |-> MsgHeader(4660, TRUE, 0, TRUE, TRUE, 1, Len(answers)),
                 Questions |-> << Q(NameAB) >>, Answers |-> answers])

\* A header announcing one answer, the root name and three more bytes.
CutAnswerResponse ==
    HeaderEncode(MsgHeader(4660, TRUE, 0, TRUE, TRUE, 0, 1)) \o << 0, 0, 1, 0 >>

\* RDLENGTH 10 with no RDATA after it.
CutRDataResponse ==
    HeaderEncode(MsgHeader(4660, TRUE, 0, TRUE, TRUE, 0, 1))
        \o << 0 >> \o U16(1) \o U16(1) \o U32(60) \o U16(10)

\* 512 bytes: a header and one answer for the root name with 489 bytes of
\* RDATA.
FullSizeResponse ==
    QueryEncode([Header |-> MsgHeader(4660, TRUE, 0, TRUE, TRUE, 0, 1),
                 Questions |-> << >>,
                 Answers |-> << RR(Root, 60, Zeros(489)) >>])

UpstreamResponses ==
    {UpstreamAnswer(<< >>),
     UpstreamAnswer(<< RR(NameAB, 300, << 1, 2, 3, 4 >>) >>),
     UpstreamAnswer(<< RR(NameAB, 300, << 5, 6, 7, 8 >>),
                       RR(NameCB, 20, << 1, 2, 3, 4 >>) >>),
     << 0 >>, CutAnswerResponse, CutRDataResponse, FullSizeResponse}

(***************************************************************************)
(* State.  The server (main): flagAddr is the value of --resolver, resAddr *)
(* the resolved upstream address ("nil" for Go's nil), pc the position of  *)
(* main, exitCode the process's exit status (-1 while it runs).  lastRecv, *)
(* parseKind and message are the datagram being served and the result of   *)
(* ParseMessage on it; qi and allAnswers are the forwarder loop's position *)
(* and accumulator; connOpen counts the open upstream sockets.  outcomes,  *)
(* upstreamOut and clientOut record, for the datagram being served, the    *)
(* outcome of each question's upstream exchange, the datagrams written to  *)
(* the upstream socket and the datagrams written to the client.  pc is     *)
(* "flags", "bind", "recv" (in ReadFromUDP), "fwd_send" and "fwd_read"     *)
(* (in the forwarder loop, before DialUDP and in conn.Read), "done" (the   *)
(* end of the loop body), "exited" (main returned) or "crashed" (a panic). *)
(***************************************************************************)
VARIABLES flagAddr, resAddr, pc, exitCode, bindFailed, lastRecv, parseKind,
          message, qi, allAnswers, connOpen, outcomes, upstreamOut, clientOut

(***************************************************************************)
(* The name decoder as a step machine (one step per iteration of the loop  *)
(* of readNameWithJumps, one per return of a recursive call): nData is the *)
(* buffer, nStack the stack of calls (off, originalOff and labels of each, *)
(* the innermost last), nVisited the visited map shared by the calls, nRet *)
(* the name being returned to the caller, nStatus "run", "ok" or the       *)
(* error, nName and nOff the name returned by readName and the parser's    *)
(* offset after it.                                                        *)
(***************************************************************************)
VARIABLES nData, nStack, nVisited, nRet, nStatus, nName, nOff

nameVars == << nData, nStack, nVisited, nRet, nStatus, nName, nOff >>

(***************************************************************************)
(* The codec on its own: cMsg is a message, cBytes the bytes Query.Encode  *)
(* produces for it, cBuf the buffer handed to ParseMessage (cBytes or a    *)
(* prefix of it), cParsed the outcome of ParseMessage(cBuf); cPhase is     *)
(* "message", "encoded" or "parsed".                                       *)
(***************************************************************************)
VARIABLES cMsg, cBytes, cBuf, cParsed, cPhase

codecVars == << cMsg, cBytes, cBuf, cParsed, cPhase >>

serverVars ==
    << flagAddr, resAddr, pc, exitCode, bindFailed, lastRecv, parseKind,
       message, qi, allAnswers, connOpen, outcomes, upstreamOut, clientOut >>

vars == << serverVars, nameVars, codecVars >>

IdleServer ==
    /\ flagAddr = ""
    /\ resAddr = "nil"
    /\ pc = "idle"
    /\ exitCode = -1
    /\ bindFailed = FALSE
    /\ lastRecv = << >>
    /\ parseKind = "none"
    /\ message = NoMessage
    /\ qi = 0
    /\ allAnswers = << >>
    /\ connOpen = 0
    /\ outcomes = << >>
    /\ upstreamOut = << >>
    /\ clientOut = << >>

IdleName ==
    /\ nData = << >>
    /\ nStack = << >>
    /\ nVisited = {}
    /\ nRet = [set |-> FALSE, name |-> << >>]
    /\ nStatus = "idle"
    /\ nName = << >>
    /\ nOff = 0

IdleCodec ==
    /\ cMsg = [Header |-> NoHeader, Questions |-> << >>, Answers |-> << >>]
    /\ cBytes = << >>
    /\ cBuf = << >>
    /\ cParsed = Unparsed("none", "")
    /\ cPhase = "idle"

InitServer(flags) ==
    /\ flagAddr \in flags
    /\ resAddr = "nil"
    /\ pc = "flags"
    /\ exitCode = -1
    /\ bindFailed = FALSE
    /\ lastRecv = << >>
    /\ parseKind = "none"
    /\ message = NoMessage
    /\ qi = 0
    /\ allAnswers = << >>
    /\ connOpen = 0
    /\ outcomes = << >>
    /\ upstreamOut = << >>
    /\ clientOut = << >>

requestVars ==
    << lastRecv, parseKind, message, qi, allAnswers, connOpen, outcomes,
       upstreamOut, clientOut >>

\* flag.Parse and net.ResolveUDPAddr("udp", *addr), lines 374-382: on an
\* error main prints and returns.
ResolveFlag ==
    /\ pc = "flags"
    /\ LET r == ResolveUDPAddr(flagAddr)
       IN  IF r.err
           THEN /\ pc' = "exited"
                /\ exitCode' = 0
                /\ resAddr' = resAddr
           ELSE /\ pc' = "bind"
                /\ exitCode' = exitCode
                /\ resAddr' = r.addr
    /\ UNCHANGED << flagAddr, bindFailed, requestVars >>
    /\ UNCHANGED << nameVars, codecVars >>

\* net.ListenUDP, lines 384-395.  The literal address of line 384 always
\* resolves, so its log.Fatal is not reached.  On a bind error main prints
\* and returns.  (Line 389 passes the network name "upd", which the standard
\* library rejects: on the repository's build the error branch is the one
\* taken.  The outcome is left to the environment here, so that the receive
\* loop is modelled as well.)
Bind ==
    /\ pc = "bind"
    /\ \E ok \in BOOLEAN :
          IF ok
          THEN /\ pc' = "recv"
               /\ UNCHANGED << exitCode, bindFailed >>
          ELSE /\ pc' = "exited"
               /\ exitCode' = 0
               /\ bindFailed' = TRUE
    /\ UNCHANGED << flagAddr, resAddr, requestVars >>
    /\ UNCHANGED << nameVars, codecVars >>

\* ReadFromUDP returns an error: break, and main returns (lines 400-404).
RecvError ==
    /\ pc = "recv"
    /\ pc' = "exited"
    /\ exitCode' = 0
    /\ UNCHANGED << flagAddr, resAddr, bindFailed, requestVars >>
    /\ UNCHANGED << nameVars, codecVars >>

SentToClient(query, forwarded) ==
    [data |-> QueryEncode(query), query |-> query, forwarded |-> forwarded]

\* One iteration of the receive loop up to its first upstream I/O, lines
\* 400-422 and 503-550.  After a parse error the code prints and goes on to
\* read message.Header of the nil message: a nil dereference, a panic.  A
\* WriteToUDP error is only printed, so both outcomes of the send lead to
\* the same state.
Recv ==
    /\ pc = "recv"
    /\ \E datagram \in ClientDatagrams :
          LET data == ReadInto(datagram)
              p == ParseMessage(data)
              rc == ResponseCode(p.msg.Header.Opcode)
          IN  /\ lastRecv' = data
              /\ parseKind' = p.kind
              /\ IF p.kind # "ok"
                 THEN /\ pc' = "crashed"
                      /\ exitCode' = 2
                      /\ message' = NoMessage
                      /\ qi' = 0
                      /\ clientOut' = << >>
                 ELSE /\ message' = p.msg
                      /\ exitCode' = exitCode
                      /\ IF UseForwarder(resAddr, rc)
                         THEN IF p.msg.Questions = << >>
                              THEN /\ pc' = "done"
                                   /\ qi' = 0
                                   /\ clientOut' =
                                        << SentToClient(
                                             FinalResponse(p.msg, << >>), TRUE) >>
                              ELSE /\ pc' = "fwd_send"
                                   /\ qi' = 1
                                   /\ clientOut' = << >>
                         ELSE /\ pc' = "done"
                              /\ qi' = 0
                              /\ clientOut' =
                                   << SentToClient(StubResponse(p.msg, rc),
                                                   FALSE) >>
    /\ UNCHANGED << flagAddr, resAddr, bindFailed, allAnswers, connOpen,
                    outcomes, upstreamOut >>
    /\ UNCHANGED << nameVars, codecVars >>

\* The end of one iteration of the forwarder loop ("continue" or the end of
\* its body) with accumulator all: the next question, or after the last one
\* the final response, lines 475-500.
ForwardContinue(all) ==
    /\ allAnswers' = all
    /\ IF qi = Len(message.Questions)
       THEN /\ pc' = "done"
            /\ qi' = qi
            /\ clientOut' =
                 Append(clientOut, SentToClient(FinalResponse(message, all), TRUE))
       ELSE /\ pc' = "fwd_send"
            /\ qi' = qi + 1
            /\ clientOut' = clientOut

Outcome(status, opened, answers) ==
    [qi |-> qi, status |-> status, opened |-> opened, answers |-> answers]

\* Lines 423-454: the single-question query, DialUDP and conn.Write.  A
\* failed dial is only printed and leaves conn nil; conn.Write is the method
\* of the embedded conn, reached through the nil *UDPConn, a nil pointer
\* dereference: the process panics.  A failed Write closes the socket and
\* continues with the next question.
ForwardSend ==
    /\ pc = "fwd_send"
    /\ \E dialOk \in BOOLEAN, writeOk \in BOOLEAN :
          LET question == message.Questions[ForwardOrder(qi)]
              quryData == QueryEncode(SingleQuery(message, question))
          IN  IF ~dialOk
              THEN /\ pc' = "crashed"
                   /\ exitCode' = 2
                   /\ outcomes' =
                        Append(outcomes, Outcome("dial", FALSE, << >>))
                   /\ UNCHANGED << qi, allAnswers, connOpen, upstreamOut,
                                   clientOut >>
              ELSE IF writeOk
              THEN /\ pc' = "fwd_read"
                   /\ connOpen' = connOpen + 1
                   /\ upstreamOut' =
                        Append(upstreamOut,
                               [qi |-> qi, data |-> quryData,
                                settled |-> Len(outcomes)])
                   /\ UNCHANGED << qi, allAnswers, outcomes, clientOut,
                                   exitCode >>
              ELSE /\ connOpen' = connOpen
                   /\ upstreamOut' = upstreamOut
                   /\ exitCode' = exitCode
                   /\ outcomes' =
                        Append(outcomes, Outcome("write", TRUE, << >>))
                   /\ ForwardContinue(allAnswers)
    /\ UNCHANGED << flagAddr, resAddr, bindFailed, lastRecv, parseKind,
                    message >>
    /\ UNCHANGED << nameVars, codecVars >>

\* Lines 456-463: conn.Read returns an error; the socket is closed.
ForwardReadError ==
    /\ pc = "fwd_read"
    /\ connOpen' = connOpen - 1
    /\ outcomes' = Append(outcomes, Outcome("read", TRUE, << >>))
    /\ ForwardContinue(allAnswers)
    /\ UNCHANGED << flagAddr, resAddr, exitCode, bindFailed, lastRecv,
                    parseKind, message, upstreamOut >>
    /\ UNCHANGED << nameVars, codecVars >>

\* Lines 456-471: conn.Read returns a datagram; the socket is closed and the
\* datagram parsed.  A panic of ParseMessage ends the process.
ForwardRead ==
    /\ pc = "fwd_read"
    /\ \E response \in UpstreamResponses :
          LET p == ParseMessage(ReadInto(response))
          IN  /\ connOpen' = connOpen - 1
              /\ IF p.kind = "panic"
                 THEN /\ pc' = "crashed"
                      /\ exitCode' = 2
                      /\ outcomes' =
                           Append(outcomes, Outcome("panic", TRUE, << >>))
                      /\ UNCHANGED << qi, allAnswers, clientOut >>
                 ELSE /\ exitCode' = exitCode
                      /\ IF p.kind = "err"
                         THEN /\ outcomes' =
                                   Append(outcomes,
                                          Outcome("parse", TRUE, << >>))
                              /\ ForwardContinue(allAnswers)
                         ELSE /\ outcomes' =
                                   Append(outcomes,
                                          Outcome("ok", TRUE, p.msg.Answers))
                              /\ ForwardContinue(
                                   AppendAnswers(allAnswers, p.msg.Answers))
    /\ UNCHANGED << flagAddr, resAddr, bindFailed, lastRecv, parseKind,
                    message, upstreamOut >>
    /\ UNCHANGED << nameVars, codecVars >>

\* The end of the loop body ("continue" at line 500, or line 551): back to
\* ReadFromUDP.  Nothing of the datagram served is kept.
NextIteration ==
    /\ pc = "done"
    /\ pc' = "recv"
    /\ lastRecv' = << >>
    /\ parseKind' = "none"
    /\ message' = NoMessage
    /\ qi' = 0
    /\ allAnswers' = << >>
    /\ outcomes' = << >>
    /\ upstreamOut' = << >>
    /\ clientOut' = << >>
    /\ UNCHANGED << flagAddr, resAddr, exitCode, bindFailed, connOpen >>
    /\ UNCHANGED << nameVars, codecVars >>

Init == InitServer(ResolverFlags) /\ IdleName /\ IdleCodec

Next ==
    \/ ResolveFlag
    \/ Bind
    \/ RecvError
    \/ Recv
    \/ ForwardSend
    \/ ForwardReadError
    \/ ForwardRead
    \/ NextIteration

Spec == Init /\ [][Next]_vars

(***************************************************************************)
(* readName, step by step, on buffers of a 12-byte header followed by at   *)
(* most MaxTail bytes; the name starts at offset 12, as the name of the    *)
(* first question does.                                                    *)
(***************************************************************************)
MaxTail == 4

\* Terminator, label lengths, a letter, the pointer prefix 0xC0, offsets 12
\* to 14 (as the second byte of a pointer, or as a label length) and the
\* reserved length 64.
NameBytes == {0, 1, 97, 192, 12, 13, 14, 64}

NameBuffers ==
    {HeaderEncode(MsgHeader(0, FALSE, 0, TRUE, FALSE, 1, 0)) \o tail :
        tail \in SeqsUpTo(NameBytes, MaxTail)}

Frame(off, originalOff, labels) ==
    [off |-> off, originalOff |-> originalOff, labels |-> labels]

Top == nStack[Len(nStack)]

SetTop(f) == [nStack EXCEPT ![Len(nStack)] = f]

InitName ==
    /\ IdleServer
    /\ IdleCodec
    /\ nData \in NameBuffers
    /\ nStack = << Frame(12, 12, << >>) >>
    /\ nVisited = {}
    /\ nRet = [set |-> FALSE, name |-> << >>]
    /\ nStatus = "run"
    /\ nName = << >>
    /\ nOff = 12

\* One iteration of the for loop of the innermost call, lines 303-356.  An
\* error is returned through every caller (lines 329-331).  At a pointer
\* the call marks its own start offset and calls itself on the target; at
\* the terminator it leaves the loop and returns the joined labels.
NameIterate ==
    /\ nStatus = "run"
    /\ ~nRet.set
    /\ \E it \in {NameIter(nData, Top.off, nVisited)} :
          IF it.kind = "err"
          THEN /\ nStatus' = it.err
               /\ nStack' = << >>
               /\ UNCHANGED << nVisited, nRet >>
          ELSE IF it.kind = "label"
          THEN /\ nStack' = SetTop(Frame(it.off, Top.originalOff,
                                         Append(Top.labels, it.label)))
               /\ UNCHANGED << nVisited, nRet, nStatus >>
          ELSE IF it.kind = "ptr"
          THEN /\ nVisited' = MarkVisited(nVisited, Top.originalOff, it.ptr)
               /\ nStack' =
                    Append(SetTop(Frame(it.off, Top.originalOff, Top.labels)),
                           Frame(it.ptr, it.ptr, << >>))
               /\ UNCHANGED << nRet, nStatus >>
          ELSE /\ nStack' = SetTop(Frame(it.off, Top.originalOff, Top.labels))
               /\ nRet' = [set |-> TRUE, name |-> Join(Top.labels)]
               /\ UNCHANGED << nVisited, nStatus >>
    /\ UNCHANGED << nData, nName, nOff >>
    /\ UNCHANGED << serverVars, codecVars >>

\* The innermost call returns nRet.name (line 358): to readName's caller,
\* or to the call that followed a pointer, which appends a non-empty name
\* to its labels, leaves its loop and returns in turn (lines 328-340).
NameReturn ==
    /\ nStatus = "run"
    /\ nRet.set
    /\ IF Len(nStack) = 1
       THEN /\ nStatus' = "ok"
            /\ nName' = nRet.name
            /\ nOff' = Top.off
            /\ nStack' = << >>
            /\ nRet' = [set |-> FALSE, name |-> << >>]
       ELSE /\ nStack' = SubSeq(nStack, 1, Len(nStack) - 1)
            /\ nRet' = [set |-> TRUE,
                        name |-> Join(AfterJump(nStack[Len(nStack) - 1].labels,
                                                nRet.name))]
            /\ UNCHANGED << nStatus, nName, nOff >>
    /\ UNCHANGED << nData, nVisited >>
    /\ UNCHANGED << serverVars, codecVars >>

NextName ==
    \/ NameIterate
    \/ NameReturn

SpecName == InitName /\ [][NextName]_vars

\* readName runs without suspension points: a step that can be taken is
\* taken.
SpecNameFair == SpecName /\ WF_vars(NextName)

(***************************************************************************)
(* The codec on messages: Query.Encode, then ParseMessage on the bytes or  *)
(* on a prefix of them.                                                    *)
(***************************************************************************)
MaxSection == 2

Label63 == [i \in 1..63 |-> 97]

HeaderShapes ==
    {MsgHeader(4660, FALSE, 0, TRUE, FALSE, 0, 0),
     [ID |-> 65535, QR |-> TRUE, Opcode |-> 15, AA |-> TRUE, TC |-> TRUE,
      RD |-> FALSE, RA |-> TRUE, Z |-> 7, RCode |-> 15, QDCount |-> 0,
      ANCount |-> 0, NSCount |-> 0, ARCount |-> 0]}

CodecQuestions ==
    {Q(NameAB), Q(Root),
     [Name |-> Label63 \o << Dot >> \o NameAB, QType |-> 65535, QClass |-> 255]}

CodecRecords ==
    {RR(NameAB, 300, << 1, 2, 3, 4 >>), RR(NameCB, 2147483647, << >>),
     RR(Label63, 0, << 192, 12 >>)}

\* Three answers; the name of the second is written at offset 16384 and the
\* third repeats it.
LargeMessage ==
    [Header |-> MsgHeader(4660, TRUE, 0, TRUE, TRUE, 0, 3),
     Questions |-> << >>,
     Answers |-> << RR(NameA, 60, Zeros(16359)), RR(NameCB, 60, << >>),
                    RR(NameCB, 60, << >>) >>]

\* Messages whose names have labels of 1 to 63 bytes (or are the root) and
\* whose counts are the lengths of their sections.
CodecMessages ==
    {[Header |-> [h EXCEPT !.QDCount = Len(qs), !.ANCount = Len(rrs)],
      Questions |-> qs, Answers |-> rrs] :
        h \in HeaderShapes, qs \in SeqsUpTo(CodecQuestions, MaxSection),
        rrs \in SeqsUpTo(CodecRecords, MaxSection)}
      \cup {LargeMessage}

InitCodec ==
    /\ IdleServer
    /\ IdleName
    /\ cMsg \in CodecMessages
    /\ cBytes = << >>
    /\ cBuf = << >>
    /\ cParsed = Unparsed("none", "")
    /\ cPhase = "message"

CodecEncode ==
    /\ cPhase = "message"
    /\ cBytes' = QueryEncode(cMsg)
    /\ cPhase' = "encoded"
    /\ UNCHANGED << cMsg, cBuf, cParsed >>
    /\ UNCHANGED << serverVars, nameVars >>

\* The buffer parsed: all the bytes, or for a message of datagram size any
\* prefix of them.
Cuts(bytes) ==
    IF Len(bytes) <= BufSize THEN 0..Len(bytes) ELSE {Len(bytes)}

CodecParse ==
    /\ cPhase = "encoded"
    /\ \E k \in Cuts(cBytes) :
          \E buf \in {SubSeq(cBytes, 1, k)} :
             /\ cBuf' = buf
             /\ cParsed' = ParseMessage(buf)
    /\ cPhase' = "parsed"
    /\ UNCHANGED << cMsg, cBytes >>
    /\ UNCHANGED << serverVars, nameVars >>

NextCodec ==
    \/ CodecEncode
    \/ CodecParse

SpecCodec == InitCodec /\ [][NextCodec]_vars
(***************************************************************************)
(* Properties of the server, checked under Spec.                           *)
(***************************************************************************)

\* The answers of the exchanges recorded in os, in order.
RECURSIVE AnswersOf(_)
AnswersOf(os) ==
    IF os = << >> THEN << >>
    ELSE AnswersOf(SubSeq(os, 1, Len(os) - 1)) \o os[Len(os)].answers

FailedOutcomes == {i \in DOMAIN outcomes : outcomes[i].status # "ok"}

\* C1: when ParseMessage returns an error for a received datagram, no
\* response is sent for it and the server stays in the receive loop.
C1_ParseErrorKeepsServing ==
    parseKind = "err" => (clientOut = << >> /\ pc \in {"done", "recv"})

\* C5: with the --resolver flag absent or empty no datagram is sent
\* upstream, the forwarder is not entered, and every response is the local
\* one: RA = 0 and one synthesized A record per question.
C5_StubWithoutResolver ==
    flagAddr = "" =>
        /\ upstreamOut = << >>
        /\ pc \notin {"fwd_send", "fwd_read"}
        /\ \A i \in DOMAIN clientOut :
              /\ ~clientOut[i].forwarded
              /\ ~parseHeader(clientOut[i].data).h.RA
              /\ clientOut[i].query.Answers =
                   [k \in 1..Len(message.Questions) |->
                       answerQuestion(message.Questions[k])]

\* C6: the header of every response sent for a parsed query: ID, Opcode
\* and RD of the query, QR = 1, AA = TC = 0, Z = 0, RCODE 4 for a non-zero
\* Opcode and 0 otherwise, RA = 1 exactly when the forwarder was used,
\* QDCOUNT and ANCOUNT the numbers of questions and answers encoded,
\* NSCOUNT = ARCOUNT = 0.
C6_ResponseHeader ==
    \A i \in DOMAIN clientOut :
        LET e == clientOut[i]
            h == parseHeader(e.data).h
            in == message.Header
        IN  /\ parseKind = "ok"
            /\ Len(e.data) >= 12
            /\ h.ID = in.ID
            /\ h.QR
            /\ h.Opcode = in.Opcode
            /\ ~h.AA
            /\ ~h.TC
            /\ h.RD = in.RD
            /\ h.Z = 0
            /\ h.RCode = (IF in.Opcode # 0 THEN 4 ELSE 0)
            /\ h.RA = e.forwarded
            /\ e.forwarded = (resAddr # "nil" /\ in.Opcode = 0)
            /\ h.QDCount = Len(e.query.Questions)
            /\ e.query.Questions = message.Questions
            /\ h.ANCount = Len(e.query.Answers)
            /\ h.NSCount = 0
            /\ h.ARCount = 0

\* A forwarded response with answers, and its header is as C6 says.
C6_Witness ==
    /\ pc = "done"
    /\ Len(clientOut) = 1
    /\ clientOut[1].forwarded
    /\ Len(clientOut[1].query.Answers) = 3
    /\ parseHeader(clientOut[1].data).h.ANCount = 3
    /\ parseHeader(clientOut[1].data).h.RA

\* C7 as stated: a forwarded query with n questions has exactly n upstream
\* datagrams, one per question in order, when its response is sent.
C7_OneDatagramPerQuestion ==
    (flagAddr = "8.8.8.8:53" /\ pc = "done" /\ clientOut # << >>
        /\ clientOut[1].forwarded) =>
        /\ Len(upstreamOut) = Len(message.Questions)
        /\ \A k \in DOMAIN upstreamOut : upstreamOut[k].qi = k

\* C7 amended: the questions are tried one at a time in question order; an
\* upstream datagram is written for exactly the questions whose dial and
\* write succeeded, at most one each, each the encoding of a query with
\* QR = 0, QDCOUNT = 1, the single question and the client's ID, Opcode and
\* RD, and each written only when the outcomes of all earlier questions are
\* known; the answers of a response are the concatenation, in question
\* order, of the Answer sections of the upstream responses that parsed.
C7_ForwardInOrder ==
    /\ \A k \in DOMAIN upstreamOut :
          LET u == upstreamOut[k]
              h == parseHeader(u.data).h
          IN  /\ u.qi \in DOMAIN message.Questions
              /\ u.data = QueryEncode(SingleQuery(message, message.Questions[u.qi]))
              /\ ~h.QR
              /\ h.QDCount = 1
              /\ h.ANCount = 0 /\ h.NSCount = 0 /\ h.ARCount = 0
              /\ h.ID = message.Header.ID
              /\ h.Opcode = message.Header.Opcode
              /\ h.RD = message.Header.RD
              /\ u.settled = u.qi - 1
              /\ \A l \in DOMAIN upstreamOut : k < l => u.qi < upstreamOut[l].qi
    /\ \A j \in DOMAIN outcomes : outcomes[j].qi = j
    /\ {upstreamOut[k].qi : k \in DOMAIN upstreamOut} =
          {j \in DOMAIN outcomes : outcomes[j].status \notin {"dial", "write"}}
              \cup (IF pc = "fwd_read" THEN {qi} ELSE {})
    /\ pc = "fwd_read" => Len(outcomes) = qi - 1
    /\ pc = "fwd_send" => Len(outcomes) = qi - 1
    /\ \A i \in DOMAIN clientOut :
          clientOut[i].forwarded =>
              /\ Len(outcomes) = Len(message.Questions)
              /\ clientOut[i].query.Answers = AnswersOf(outcomes)

\* Two questions, two upstream datagrams, and the response carries the one
\* answer of the first exchange followed by the two of the second.
C7_Witness ==
    /\ pc = "done"
    /\ Len(message.Questions) = 2
    /\ Len(upstreamOut) = 2
    /\ Len(outcomes) = 2
    /\ Len(outcomes[1].answers) = 1
    /\ Len(outcomes[2].answers) = 2
    /\ Len(clientOut) = 1
    /\ clientOut[1].query.Answers = outcomes[1].answers \o outcomes[2].answers

\* C8: once the exchange of a question has failed (dial, write, read, or a
\* response that does not parse), the failed questions contribute no
\* answers, the socket is closed, the forwarder goes on with the remaining
\* questions, and exactly one response is sent, with the answers of the
\* questions that succeeded.
C8_FailedExchangeSkipped ==
    (flagAddr = "8.8.8.8:53" /\ FailedOutcomes # {}) =>
        /\ \A i \in FailedOutcomes : outcomes[i].answers = << >>
        /\ pc # "fwd_read" => connOpen = 0
        /\ pc \in {"fwd_send", "fwd_read", "done"}
        /\ pc \in {"fwd_send", "fwd_read"} =>
              (clientOut = << >> /\ qi = Len(outcomes) + 1
                 /\ qi <= Len(message.Questions))
        /\ pc = "done" =>
              /\ Len(outcomes) = Len(message.Questions)
              /\ Len(clientOut) = 1
              /\ clientOut[1].query.Answers = AnswersOf(outcomes)

\* C9: every datagram sent to a client is at most 512 bytes long.
C9_ResponseFits ==
    \A i \in DOMAIN clientOut : Len(clientOut[i].data) <= BufSize

\* C10: after a failed bind the process has not entered the receive loop
\* and, once ended, its exit code is not 0.
C10_BindFailureExit ==
    bindFailed =>
        /\ parseKind = "none"
        /\ pc = "exited"
        /\ exitCode # 0

\* The local answers to the questions qs: one A record 8.8.8.8, TTL 60, per
\* question, in question order.
LocalAnswers(qs) ==
    [k \in 1..Len(qs) |->
        [Name |-> qs[k].Name, Type |-> 1, Class |-> 1, TTL |-> 60,
         RData |-> << 8, 8, 8, 8 >>]]

\* The response e, as built and as read back from its bytes, echoes the
\* questions of the query and carries their local answers.
AnsweredLocally(e) ==
    /\ e.query.Questions = message.Questions
    /\ e.query.Answers = LocalAnswers(message.Questions)
    /\ LET p == ParseMessage(e.data)
       IN  /\ p.kind = "ok"
           /\ p.msg.Questions = message.Questions
           /\ p.msg.Answers = LocalAnswers(message.Questions)

\* C11: a query whose Opcode is not 0, or any query when no upstream is
\* configured, is answered with one A record per question (the question's
\* name, TYPE 1, CLASS 1, TTL 60, RDATA 08 08 08 08) in question order and
\* with the questions echoed; no upstream datagram is sent for a query
\* whose Opcode is not 0.
C11_StubAnswers ==
    /\ \A i \in DOMAIN clientOut :
          (message.Header.Opcode # 0 \/ flagAddr = "") =>
              AnsweredLocally(clientOut[i])
    /\ (parseKind = "ok" /\ message.Header.Opcode # 0) => upstreamOut = << >>

\* The part of C11 about queries whose Opcode is not 0.
StubAnswersForOtherOpcodes ==
    /\ \A i \in DOMAIN clientOut :
          message.Header.Opcode # 0 => AnsweredLocally(clientOut[i])
    /\ (parseKind = "ok" /\ message.Header.Opcode # 0) => upstreamOut = << >>

(***************************************************************************)
(* Properties of name decoding, checked under SpecNameFair.                *)
(***************************************************************************)

\* Where decoding goes next from offset pos with the visited map ignored:
\* the next label, the target of a pointer, or -1 when the name ends or an
\* error other than the loop error stops it.
WalkStep(data, pos) ==
    LET it == NameIter(data, pos, {})
    IN  IF it.kind = "label" THEN it.off
        ELSE IF it.kind = "ptr" THEN it.ptr
        ELSE -1

RECURSIVE WalkAlive(_, _, _)
WalkAlive(data, pos, fuel) ==
    IF pos = -1 THEN FALSE
    ELSE IF fuel = 0 THEN TRUE
    ELSE WalkAlive(data, WalkStep(data, pos), fuel - 1)

\* The pointers reachable from start form a cycle: the walk is still going
\* after more steps than the buffer has offsets, so it revisits an offset.
PointerCycle(data, start) == WalkAlive(data, start, Len(data) + 1)

\* The step machine and the operator readName compute the same result.
NameMachineAgrees ==
    nStatus \notin {"idle", "run"} =>
        LET r == readName(nData, 12)
        IN  IF r.err # "" THEN nStatus = r.err
            ELSE nStatus = "ok" /\ nName = r.name /\ nOff = r.off

\* C3: name decoding terminates on every buffer; it ends with the
\* compression-loop error whenever the pointers reachable from the name's
\* start form a cycle, and never does for an acyclic chain.
C3_NameDecoding ==
    /\ <>(nStatus # "run")
    /\ [](nStatus # "run" =>
            (nStatus = "compression loop" <=> PointerCycle(nData, 12)))
    /\ [](Len(nStack) <= Len(nData))

\* C0 0C at offset 12 ends with the loop error.
C3_Witness ==
    /\ Len(nData) = 14
    /\ SubSeq(nData, 13, 14) = << 192, 12 >>
    /\ nStatus = "compression loop"

(***************************************************************************)
(* Properties of the codec, checked under SpecCodec.                       *)
(***************************************************************************)

\* C2: ParseMessage ends with a Message or with a parse error on every
\* buffer, never with a panic.
C2_ParseTotal ==
    cPhase = "parsed" => cParsed.kind \in {"ok", "err"}

\* C4: ParseMessage on the bytes of Query.Encode returns the header, the
\* questions and the records of the message encoded.
C4_RoundTrip ==
    (cPhase = "parsed" /\ cBuf = cBytes) =>
        /\ cParsed.kind = "ok"
        /\ cParsed.msg.Header = cMsg.Header
        /\ cParsed.msg.Questions = cMsg.Questions
        /\ cParsed.msg.Answers = cMsg.Answers

\* The round trip of the messages encoded in fewer than 16384 bytes.
RoundTripBelow16K ==
    (cPhase = "parsed" /\ cBuf = cBytes /\ Len(cBytes) < 16384) =>
        /\ cParsed.kind = "ok"
        /\ cParsed.msg.Header = cMsg.Header
        /\ cParsed.msg.Questions = cMsg.Questions
        /\ cParsed.msg.Answers = cMsg.Answers
        /\ cParsed.msg.Authorities = << >>
        /\ cParsed.msg.Additionals = << >>

\* The k-th name of message q in the order Query.Encode writes them (the
\* names of the questions, then those of the answers), and the buffer and
\* suffix-offset table with which encodeName is called for it.
NameCount(q) == Len(q.Questions) + Len(q.Answers)

NameAt(q, k) ==
    IF k <= Len(q.Questions) THEN q.Questions[k].Name
    ELSE q.Answers[k - Len(q.Questions)].Name

StateBefore(q, k) ==
    IF k <= Len(q.Questions)
    THEN EncodeQuestions(q.Questions, 1, k - 1, HeaderEncode(q.Header),
                         EmptyMap)
    ELSE Eval(EncodeQuestions(q.Questions, 1, Len(q.Questions),
                              HeaderEncode(q.Header), EmptyMap),
              LAMBDA qs : EncodeAnswers(q.Answers, 1,
                                        k - Len(q.Questions) - 1,
                                        qs.buf, qs.offsetMap))

\* The pointer encodeName writes for name, if it writes one: its own offset,
\* the two bytes written, the suffix it stands for and the offset recorded
\* for that suffix when its labels were written.  encodeName records one
\* offset for every label it writes, so it has written a pointer when it
\* recorded fewer offsets than the name has labels.
NamePointer(name, buf, offsetMap) ==
    IF name = << >> THEN {}
    ELSE Eval(encodeName(name, buf, offsetMap), LAMBDA r :
           Eval(Cardinality(DOMAIN r.offsetMap)
                    - Cardinality(DOMAIN offsetMap), LAMBDA written :
             Eval(Split(name), LAMBDA labels :
               IF written = Len(labels) THEN {}
               ELSE Eval(Join(SubSeq(labels, written + 1, Len(labels))),
                         LAMBDA suffix :
                           {[at |-> Len(r.buf) - 2,
                             word |-> GetU16(r.buf, Len(r.buf) - 2),
                             suffix |-> suffix,
                             first |-> offsetMap[suffix]]}))))

EncodedPointers(q) ==
    UNION {Eval(StateBefore(q, k), LAMBDA st :
                NamePointer(NameAt(q, k), st.buf, st.offsetMap)) :
           k \in 1..NameCount(q)}

\* The bytes at offset off are the length byte and the bytes of label.
LabelAt(bytes, off, label) ==
    /\ off + 1 + Len(label) <= Len(bytes)
    /\ bytes[off + 1] = Len(label)
    /\ SubSeq(bytes, off + 2, off + 1 + Len(label)) = label

\* Pointer p of the message encoded as bytes is a pointer word whose target
\* is at least 12, lies before the pointer, and is the offset at which the
\* labels of its suffix were first written in these bytes.
PointsBack(p, bytes) ==
    /\ GetU16(bytes, p.at) = p.word
    /\ p.word \div 16384 = 3
    /\ p.word % 16384 >= 12
    /\ p.word % 16384 < p.at
    /\ p.word % 16384 = p.first
    /\ LabelAt(bytes, p.word % 16384, Split(p.suffix)[1])

\* C12: in every message produced by Query.Encode each compression pointer
\* written by encodeName targets an offset that is at least 12, is less than
\* the pointer's own offset, and is the offset at which that name suffix was
\* first written as labels in the same message.
C12_PointersTargetEarlierLabels ==
    cPhase = "encoded" =>
        \A p \in EncodedPointers(cMsg) : PointsBack(p, cBytes)

\* C12 for the messages encoded in fewer than 16384 bytes.
PointersBelow16K ==
    (cPhase = "encoded" /\ Len(cBytes) < 16384) =>
        \A p \in EncodedPointers(cMsg) : PointsBack(p, cBytes)

=============================================================================
